---- MODULE Spec2Model ----
(***************************************************************************)
(* Model of git_object_graph.py (GitObjectGraphVisualizer): object         *)
(* enumeration, the name-resolution pass, the depth-first graph build, the *)
(* branch/HEAD fold-in and the hand-over to the renderer (Spec), and of    *)
(* git_tree_visualizer.py (GitTreeVisualizer): the tree-only mode          *)
(* (TreeSpec), which has its own nodes, edges and visited set and runs in  *)
(* the variables of the same names.                                        *)
(*                                                                         *)
(* An object identifier is a pair <<head, tail>>: head stands for the      *)
(* first eight hex digits of the hash (git_hash[:8]) and tail for the      *)
(* remaining ones.  Branch names are sequences of one-character strings,   *)
(* so that re.sub in create_branch_node is computed character by           *)
(* character.                                                              *)
(***************************************************************************)
EXTENDS Integers, Sequences, FiniteSets, TLC

VARIABLES
  repo,          \* the repository the git commands answer from and, for
                 \* git_tree_visualizer.py, the command line (never written)
  run,           \* 1: run in sorted enumeration order, 2: run in any order
  refNodes,      \* self.nodes at the end of the fold-in of run 1
  refEdges,      \* self.edges at the end of the fold-in of run 1
  pc,            \* position inside visualize()
  all_objects,   \* list returned by get_all_git_objects
  idx,           \* loop index of the loop visualize()/process_branches() is in
  stack,         \* call stack of process_object: frames [hash, refs, i]
  nodes,         \* self.nodes: node_id -> [type, label, name]
  edges,         \* self.edges: list of <<from, to, relation>>
  visited,       \* self.visited
  object_types,  \* self.object_types
  object_names,  \* self.object_names
  branches,      \* self.branches: list of <<name, type, commit_hash_or_ref>>
  upstreams,     \* self.upstreams as its item list <<local, upstream>>
  bodyRuns,      \* per identifier: how often the first-visit body has run
  out            \* what the run handed to the outside: exit status, artifacts

vars == <<repo, run, refNodes, refEdges, pc, all_objects, idx, stack, nodes,
          edges, visited, object_types, object_names, branches, upstreams,
          bodyRuns, out>>

(***************************************************************************)
(* Bounds                                                                  *)
(***************************************************************************)
\* largest number of identifier-carrying lines over all object bodies of a
\* store of two objects; a store of one object more has one line less
MaxLines == 2
\* largest number of entries of the local branch listing
MaxBranches == 2
\* largest number of entries of one tree handed to git_tree_visualizer.py
MaxEntries == 2

(***************************************************************************)
(* Object identifiers and object bodies                                    *)
(***************************************************************************)
H1 == <<"aa", "01">>
H2 == <<"bb", "01">>
H3 == <<"cc", "01">>
\* shares its first eight digits with H1
H4 == <<"aa", "02">>
\* an identifier no store holds (a gitlink target, a parent cut off by a shallow clone)
Hx == <<"dd", "01">>
NoHash == <<>>

AllHashes == {H1, H2, H3, H4, Hx}
ObjectSets == {{}, {H1}, {H1, H2}, {H1, H4}, {H1, H2, H3}}
ObjKinds == {"commit", "tree", "blob", "tag"}
EntryNames == {"foo.txt", "readme.txt"}
TagNames == {"v1"}

\* one line of `git cat-file -p`
Line(tok, type, hash, name) ==
  [tok |-> tok, type |-> type, hash |-> hash, name |-> name]

OfKind(km, k) == {h \in DOMAIN km : km[h] = k}

CommitBodies(km) ==
  LET trees == OfKind(km, "tree") \cup {Hx}
      pars == OfKind(km, "commit") \cup {Hx}
  IN {<<Line("tree", "", t, "")>> : t \in trees}
     \cup {<<Line("tree", "", t, ""), Line("parent", "", p, "")>> :
             t \in trees, p \in pars}

EntryFor(km, h, n) ==
  Line("entry", IF h \in DOMAIN km THEN km[h] ELSE "commit", h, n)

\* entries of a tree have distinct names and are listed sorted by name
TreeBodies(km) ==
  LET T == OfKind(km, "tree") \cup OfKind(km, "blob") \cup {Hx}
  IN {<<>>}
     \cup {<<EntryFor(km, h, n)>> : h \in T, n \in EntryNames}
     \cup {<<EntryFor(km, h1, "foo.txt"), EntryFor(km, h2, "readme.txt")>> :
             h1 \in T, h2 \in T}

TagBodies(km) ==
  {<<Line("object", "", o, ""), Line("tag", "", NoHash, n)>> :
     o \in DOMAIN km, n \in TagNames}

Bodies(km, k) ==
  CASE k = "commit" -> CommitBodies(km)
    [] k = "tree" -> TreeBodies(km)
    [] k = "tag" -> TagBodies(km)
    [] OTHER -> {<<>>}

Weight(b) == Cardinality({i \in DOMAIN b : b[i].hash # NoHash})

\* the identifiers in a fixed (sorted) order
HashOrder == <<H1, H2, H3, H4, Hx>>
HashIndex(h) == CHOOSE i \in DOMAIN HashOrder : HashOrder[i] = h
SortedObjects(objs) == SelectSeq(HashOrder, LAMBDA h : h \in objs)
KindOrder == <<"commit", "tag", "tree", "blob">>
KindIndex(k) == CHOOSE i \in DOMAIN KindOrder : KindOrder[i] = k

\* identifiers are interchangeable: one assignment of kinds per multiset of kinds
KindMaps(objs) ==
  {km \in [objs -> ObjKinds] :
     \A g, h \in objs :
       HashIndex(g) < HashIndex(h) => KindIndex(km[g]) <= KindIndex(km[h])}

RECURSIVE StoresFrom(_, _, _, _, _)
\* the stores that give the identifiers todo[i..] bodies of at most budget
\* lines in all; of two neighbours of one kind the first has the longer
\* body (prev is its length), identifiers being interchangeable
StoresFrom(km, todo, i, budget, prev) ==
  IF i > Len(todo) THEN {<<>>}
  ELSE LET h == todo[i]
           cap == IF i > 1 /\ km[todo[i - 1]] = km[h] THEN prev ELSE budget
       IN UNION {{(h :> [kind |-> km[h], body |-> b]) @@ rest :
                     rest \in StoresFrom(km, todo, i + 1, budget - Weight(b),
                                         Weight(b))} :
                  b \in {bb \in Bodies(km, km[h]) :
                           Weight(bb) <= budget /\ Weight(bb) <= cap}}

\* the lines the bodies of a store over objs may hold in all
Budget(objs) == MaxLines + 2 - Cardinality(objs)

\* the object stores over ObjectSets whose bodies respect the kinds
Stores ==
  UNION {UNION {StoresFrom(km, SortedObjects(objs), 1, Budget(objs), Budget(objs)) :
                  km \in KindMaps(objs)} :
           objs \in ObjectSets \ {{}}}
  \cup {<<>>}

\* a root commit with a tree that holds one blob named readme.txt
ScenarioStore ==
  (H1 :> [kind |-> "commit", body |-> <<Line("tree", "", H2, "")>>])
  @@ (H2 :> [kind |-> "tree", body |-> <<Line("entry", "blob", H3, "readme.txt")>>])
  @@ (H3 :> [kind |-> "blob", body |-> <<>>])

\* two trees that list one blob under two names
TwoListersStore ==
  (H1 :> [kind |-> "tree", body |-> <<Line("entry", "blob", H3, "foo.txt")>>])
  @@ (H2 :> [kind |-> "tree", body |-> <<Line("entry", "blob", H3, "readme.txt")>>])
  @@ (H3 :> [kind |-> "blob", body |-> <<>>])

Commits(store) == {h \in DOMAIN store : store[h].kind = "commit"}

(***************************************************************************)
(* Branch names and the branch side of a repository                        *)
(***************************************************************************)
Main == <<"m", "a", "i", "n">>
FeatSlash == <<"f", "/", "x">>
FeatUnder == <<"f", "_", "x">>
OriginMain == <<"o", "/", "m">>
\* the "(HEAD detached at ...)" line of `git branch`
DetachedLine == <<"(", "H", ")">>
\* the "origin/HEAD -> origin/main" line of `git branch -r`
ArrowLine == <<"o", " ", "-", ">", " ", "m">>
NoName == <<>>
\* the name get_head_reference records HEAD under
HeadName == <<"H", "E", "A", "D">>

\* local branch names in listing (refname) order
LocalNames == <<FeatSlash, FeatUnder, Main, OriginMain>>

Ref(name, tip) == [name |-> name, tip |-> tip]

RECURSIVE Listings(_, _, _)
\* listings of at most n of the names names[i..], each with a tip of tips
Listings(names, i, n) ==
  IF i > Len(names) \/ n = 0 THEN {<<>>}
  ELSE Listings(names, i + 1, n)
       \cup {<<Ref(names[i], t)>> \o rest :
               t \in {H1, NoHash}, rest \in Listings(names, i + 1, n - 1)}

RemoteListings ==
  {<<>>, <<Ref(OriginMain, H1)>>, <<Ref(OriginMain, NoHash)>>,
   <<Ref(ArrowLine, NoHash), Ref(FeatSlash, NoHash), Ref(OriginMain, H1)>>}

\* the lines of for-each-ref: one listed local branch with an upstream name
\* (a remote-tracking one, a local one, or none), or no line at all
UpstreamConfigs(locals) ==
  {<<>>}
  \cup UNION {{<<<<locals[k].name, OriginMain>>>>,
               <<<<locals[k].name, Main>>>>,
               <<<<locals[k].name, NoName>>>>} : k \in DOMAIN locals}

HeadStates(store) ==
  {[mode |-> "symbolic", name |-> Main, commit |-> NoHash],
   [mode |-> "symbolic", name |-> FeatSlash, commit |-> NoHash],
   [mode |-> "none", name |-> NoName, commit |-> NoHash]}
  \cup {[mode |-> "detached", name |-> NoName, commit |-> c] : c \in Commits(store)}

Repo(store, ok, locals, remotes, ups, head) ==
  [objects |-> store, enumOK |-> ok, locals |-> locals, remotes |-> remotes,
   upstream |-> ups, head |-> head]

\* one branch at the first commit with HEAD on it, or an unborn main
PlainRepo(store) ==
  IF Commits(store) = {}
  THEN Repo(store, TRUE, <<>>, <<>>, <<>>,
            [mode |-> "symbolic", name |-> Main, commit |-> NoHash])
  ELSE Repo(store, TRUE, <<Ref(Main, SortedObjects(Commits(store))[1])>>,
            <<>>, <<>>,
            [mode |-> "symbolic", name |-> Main, commit |-> NoHash])

OneCommitStore == H1 :> [kind |-> "commit", body |-> <<Line("tree", "", Hx, "")>>]

SymbolicMain == [mode |-> "symbolic", name |-> Main, commit |-> NoHash]

\* every local listing: with every remote listing, and with every upstream
\* configuration beside no remote and beside the remote o/m, under HEAD on
\* main; and with every state of HEAD
BranchRepos ==
  UNION {{Repo(OneCommitStore, TRUE, l, r, <<>>, SymbolicMain) :
            r \in RemoteListings}
         \cup {Repo(OneCommitStore, TRUE, l, r, u, SymbolicMain) :
                 r \in {<<>>, <<Ref(OriginMain, H1)>>}, u \in UpstreamConfigs(l)}
         \cup {Repo(OneCommitStore, TRUE, l, <<>>, <<>>, h) :
                 h \in HeadStates(OneCommitStore)} :
         l \in Listings(LocalNames, 1, MaxBranches)}

\* repositories whose object enumeration fails
BrokenRepos ==
  {[PlainRepo(s) EXCEPT !.enumOK = FALSE] : s \in {<<>>, OneCommitStore}}

\* a commit whose message holds the line "parent " (the word, a blank, no
\* identifier), in front of a tree and a blob
BareParentStore ==
  (H1 :> [kind |-> "commit",
          body |-> <<Line("tree", "", H2, ""), Line("parent", "", NoHash, "")>>])
  @@ (H2 :> [kind |-> "tree", body |-> <<Line("entry", "blob", H3, "foo.txt")>>])
  @@ (H3 :> [kind |-> "blob", body |-> <<>>])

\* a commit whose message holds the line "tree "
BareTreeStore ==
  H1 :> [kind |-> "commit",
         body |-> <<Line("tree", "", Hx, ""), Line("tree", "", NoHash, "")>>]

\* a tag whose message holds the line "object "
BareObjectStore ==
  (H1 :> [kind |-> "tag",
          body |-> <<Line("object", "", H2, ""), Line("tag", "", NoHash, "v1"),
                     Line("object", "", NoHash, "")>>])
  @@ (H2 :> [kind |-> "blob", body |-> <<>>])

\* a commit and a tag whose messages hold a line no parser looks at
PlainTextStore ==
  (H1 :> [kind |-> "commit",
          body |-> <<Line("tree", "", Hx, ""), Line("text", "", NoHash, "")>>])
  @@ (H2 :> [kind |-> "tag",
             body |-> <<Line("object", "", H1, ""), Line("tag", "", NoHash, "v1"),
                        Line("text", "", NoHash, "")>>])

\* repositories with message lines in the object bodies
MessageRepos ==
  {PlainRepo(s) :
     s \in {BareParentStore, BareTreeStore, BareObjectStore, PlainTextStore}}

Repos ==
  {PlainRepo(s) : s \in Stores \cup {ScenarioStore, TwoListersStore}}
  \cup BranchRepos
  \cup BrokenRepos \cup MessageRepos

(***************************************************************************)
(* The git commands the program runs                                       *)
(***************************************************************************)
Exists(h) == h \in DOMAIN repo.objects

\* git cat-file -t: the kind, or "unknown" when the command fails
CatFileType(h) == IF Exists(h) THEN repo.objects[h].kind ELSE "unknown"

\* git cat-file -p: the lines of the body (read only where the command succeeds)
CatFileBody(h) == repo.objects[h].body

\* git branch --format=%(refname:short)
LocalListing ==
  IF repo.head.mode = "detached"
  THEN <<Ref(DetachedLine, NoHash)>> \o repo.locals
  ELSE repo.locals

Perms(S) ==
  {f \in [1..Cardinality(S) -> S] : \A i, j \in DOMAIN f : f[i] = f[j] => i = j}

(***************************************************************************)
(* Pure functions of GitObjectGraphVisualizer                              *)
(***************************************************************************)
IdentChars ==
  {"a", "b", "c", "d", "e", "f", "g", "h", "i", "j", "k", "l", "m", "n", "o",
   "p", "q", "r", "s", "t", "u", "v", "w", "x", "y", "z",
   "A", "B", "C", "D", "E", "F", "G", "H", "I", "J", "K", "L", "M", "N", "O",
   "P", "Q", "R", "S", "T", "U", "V", "W", "X", "Y", "Z",
   "0", "1", "2", "3", "4", "5", "6", "7", "8", "9", "_"}

\* f"obj_{git_hash[:8]}"
create_node_id(git_hash) == <<"obj", git_hash[1]>>

\* re.sub(r'[^a-zA-Z0-9_]', '_', branch_name)
safe_name(branch_name) ==
  [i \in DOMAIN branch_name |->
     IF branch_name[i] \in IdentChars THEN branch_name[i] ELSE "_"]

\* slip: a branch node is keyed like the node of an object
create_branch_node_objectKeyed(branch_name, branch_type) ==
  create_node_id(<<"aa", branch_name>>)

\* f"branch_{branch_type}_{safe_name}"
create_branch_node(branch_name, branch_type) ==
  <<"branch", branch_type, safe_name(branch_name)>>

\* f"{git_hash[:8]}\n{name}" if name else git_hash[:8]
Label(git_hash, name) ==
  IF name # "" THEN <<git_hash[1], "\n", name>> ELSE <<git_hash[1]>>

Node(type, label, name) == [type |-> type, label |-> label, name |-> name]

\* self.nodes[node_id] = value
SetNode(ns, node_id, value) ==
  [n \in DOMAIN ns \cup {node_id} |-> IF n = node_id THEN value ELSE ns[n]]

\* self.object_names.get(git_hash, "")
NameOf(names, git_hash) ==
  IF git_hash \in DOMAIN names THEN names[git_hash] ELSE ""

\* if key not in self.object_names: self.object_names[key] = name
StoreName(names, key, name) ==
  IF key \in DOMAIN names THEN names ELSE names @@ (key :> name)

\* get_object_type: the cached kind, else the kind git reports
get_object_type(types, git_hash) ==
  IF git_hash \in DOMAIN types THEN types[git_hash] ELSE CatFileType(git_hash)

\* get_object_type caches a kind it could read
CacheType(types, git_hash) ==
  IF git_hash \in DOMAIN types \/ ~Exists(git_hash) THEN types
  ELSE types @@ (git_hash :> CatFileType(git_hash))

\* the first line that starts with one of toks and carries no identifier
\* (line.split()[1] raises IndexError on it), 0 if there is none
FirstBad(lines, toks) ==
  LET bad == {i \in DOMAIN lines : lines[i].tok \in toks /\ lines[i].hash = NoHash}
  IN IF bad = {} THEN 0 ELSE CHOOSE i \in bad : \A j \in bad : i <= j

\* the line starts the parser of obj_type indexes with split()[1]
IndexedToks(obj_type) ==
  CASE obj_type = "commit" -> {"tree", "parent"}
    [] obj_type = "tag" -> {"object"}
    [] OTHER -> {}

\* the parser of obj_type raises IndexError on the body of git_hash
ParseRaises(obj_type, git_hash) ==
  /\ Exists(git_hash)
  /\ FirstBad(CatFileBody(git_hash), IndexedToks(obj_type)) # 0

RefsOf(lines, toks) ==
  LET sel == SelectSeq(lines, LAMBDA l : l.tok \in toks)
  IN [i \in DOMAIN sel |->
        <<IF sel[i].tok = "entry" THEN sel[i].type ELSE sel[i].tok, sel[i].hash>>]

\* parse_commit: one reference per tree line and per parent line
parse_commit(git_hash) ==
  IF Exists(git_hash) THEN RefsOf(CatFileBody(git_hash), {"tree", "parent"})
  ELSE <<>>

\* slip: every entry reference is typed tree, whatever the entry's type field
parse_tree_typedTree(git_hash) ==
  IF Exists(git_hash)
  THEN LET refs == RefsOf(CatFileBody(git_hash), {"entry"})
       IN [i \in DOMAIN refs |-> <<"tree", refs[i][2]>>]
  ELSE <<>>

\* parse_tree: one reference per entry, typed by the entry's type field
parse_tree(git_hash) ==
  IF Exists(git_hash) THEN RefsOf(CatFileBody(git_hash), {"entry"}) ELSE <<>>

\* parse_tag: one reference per object line
parse_tag(git_hash) ==
  IF Exists(git_hash) THEN RefsOf(CatFileBody(git_hash), {"object"}) ELSE <<>>

RECURSIVE NamesFrom(_, _, _, _)
\* the name map after lines[i..] of the body of git_hash were parsed
NamesFrom(names, git_hash, lines, i) ==
  IF i > Len(lines) THEN names
  ELSE LET l == lines[i]
           next == CASE l.tok = "entry" -> StoreName(names, l.hash, l.name)
                     [] l.tok = "tag" -> StoreName(names, git_hash, l.name)
                     [] OTHER -> names
       IN NamesFrom(next, git_hash, lines, i + 1)

\* self.object_names after the parser for obj_type ran on git_hash
\* (the lines in front of the one the parser raises on, if it raises)
NamesAfterParse(names, obj_type, git_hash) ==
  IF obj_type \in {"tree", "tag"} /\ Exists(git_hash)
  THEN LET lines == CatFileBody(git_hash)
           bad == FirstBad(lines, IndexedToks(obj_type))
       IN NamesFrom(names, git_hash,
                    IF bad = 0 THEN lines ELSE SubSeq(lines, 1, bad - 1), 1)
  ELSE names

\* the references process_object walks for an object of kind obj_type
RefsFor(obj_type, git_hash) ==
  CASE obj_type = "commit" -> parse_commit(git_hash)
    [] obj_type = "tree" -> parse_tree(git_hash)
    [] obj_type = "tag" -> parse_tag(git_hash)
    [] OTHER -> <<>>

\* slip: the identifier is never added to the visited set
MarkVisited_forgotten(vis, git_hash) == vis

\* self.visited.add(git_hash)
MarkVisited(vis, git_hash) == vis \cup {git_hash}

\* the early return of process_object
AlreadyVisited(vis, git_hash) == git_hash \in vis

\* slip: the empty enumeration is not checked
NoObjects_unchecked(objs) == FALSE

\* `if not all_objects` in visualize
NoObjects(objs) == objs = <<>>

Frame(git_hash, refs) == [hash |-> git_hash, refs |-> refs, i |-> 1]

(***************************************************************************)
(* get_all_branches and get_head_reference                                 *)
(***************************************************************************)
StartsWith(name, c) == name # <<>> /\ name[1] = c

\* ' -> ' in branch_name
HasArrow(name) ==
  \E i \in 1..(Len(name) - 3) :
    name[i] = " " /\ name[i + 1] = "-" /\ name[i + 2] = ">" /\ name[i + 3] = " "

SkipLocal(name) == name = NoName \/ StartsWith(name, "(")
SkipRemote(name) == name = NoName \/ HasArrow(name)

RECURSIVE Resolved(_, _, _, _)
\* the entries one try block appends: the loop ends at the first listed
\* branch whose rev-parse fails (CalledProcessError leaves the for loop)
Resolved(listing, i, type, local) ==
  IF i > Len(listing) THEN <<>>
  ELSE LET b == listing[i]
       IN IF (local /\ SkipLocal(b.name)) \/ (~local /\ SkipRemote(b.name))
          THEN Resolved(listing, i + 1, type, local)
          ELSE IF b.tip = NoHash THEN <<>>
          ELSE <<<<b.name, type, b.tip>>>> \o Resolved(listing, i + 1, type, local)

LocalBranches == Resolved(LocalListing, 1, "local", TRUE)
RemoteBranches == Resolved(repo.remotes, 1, "remote", FALSE)

\* lines of for-each-ref with both a local and an upstream name
Upstreams == SelectSeq(repo.upstream, LAMBDA u : u[2] # NoName)

\* what get_head_reference appends to self.branches
HeadEntry ==
  CASE repo.head.mode = "symbolic" ->
         <<<<HeadName, "head", <<"branch:", repo.head.name>>>>>>
    [] repo.head.mode = "detached" ->
         <<<<HeadName, "head", <<"commit:", repo.head.commit>>>>>>
    [] OTHER -> <<>>

(***************************************************************************)
(* State after construction                                                *)
(***************************************************************************)
NoOutput ==
  [exited |-> FALSE, status |-> 0, dot |-> <<>>, file |-> FALSE,
   svg |-> FALSE, stdout |-> FALSE]

\* an exception nothing catches: traceback, exit status 1
Uncaught(o) == [o EXCEPT !.exited = TRUE, !.status = 1]

\* __init__: every collection empty
Fresh ==
  /\ pc = "start"
  /\ all_objects = <<>>
  /\ idx = 1
  /\ stack = <<>>
  /\ nodes = <<>>
  /\ edges = <<>>
  /\ visited = {}
  /\ object_types = <<>>
  /\ object_names = <<>>
  /\ branches = <<>>
  /\ upstreams = <<>>
  /\ bodyRuns = [h \in AllHashes |-> 0]
  /\ out = NoOutput

Init ==
  /\ repo \in Repos
  /\ run = 1
  /\ refNodes = <<>>
  /\ refEdges = <<>>
  /\ Fresh

(***************************************************************************)
(* visualize: enumeration, branches, HEAD, name-resolution pass            *)
(***************************************************************************)
\* get_all_git_objects: the identifiers in any order (list(set)); run 1
\* takes the sorted order.  [] when the command fails.
Enumerations ==
  IF ~repo.enumOK THEN {<<>>}
  ELSE IF run = 1 THEN {SortedObjects(DOMAIN repo.objects)}
  ELSE Perms(DOMAIN repo.objects)

\* visualize lines 520-528: get_all_git_objects, then sys.exit(1) on an empty list
Enumerate ==
  /\ pc = "start"
  /\ \E objs \in Enumerations :
       /\ all_objects' = objs
       /\ IF NoObjects(objs)
          THEN /\ pc' = "aborted"
               /\ out' = [out EXCEPT !.exited = TRUE, !.status = 1]
          ELSE /\ pc' = "get_branches"
               /\ out' = out
  /\ UNCHANGED <<repo, run, refNodes, refEdges, idx, stack, nodes, edges,
                 visited, object_types, object_names, branches, upstreams,
                 bodyRuns>>

\* get_all_branches: local branches, upstream configuration, remote branches
GetAllBranches ==
  /\ pc = "get_branches"
  /\ branches' = branches \o LocalBranches \o RemoteBranches
  /\ upstreams' = Upstreams
  /\ pc' = "get_head"
  /\ UNCHANGED <<repo, run, refNodes, refEdges, all_objects, idx, stack, nodes,
                 edges, visited, object_types, object_names, bodyRuns, out>>

\* get_head_reference
GetHeadReference ==
  /\ pc = "get_head"
  /\ branches' = branches \o HeadEntry
  /\ pc' = "scan"
  /\ idx' = 1
  /\ UNCHANGED <<repo, run, refNodes, refEdges, all_objects, stack, nodes,
                 edges, visited, object_types, object_names, upstreams,
                 bodyRuns, out>>

\* one iteration of the loop of scan_all_references
ScanObject ==
  /\ pc = "scan"
  /\ idx <= Len(all_objects)
  /\ LET obj_hash == all_objects[idx]
         obj_type == get_object_type(object_types, obj_hash)
     IN /\ object_types' = CacheType(object_types, obj_hash)
        /\ object_names' = NamesAfterParse(object_names, obj_type, obj_hash)
        /\ IF obj_type \in {"tree", "tag"} /\ ParseRaises(obj_type, obj_hash)
           THEN pc' = "crashed" /\ out' = Uncaught(out)
           ELSE pc' = pc /\ out' = out
  /\ idx' = idx + 1
  /\ UNCHANGED <<repo, run, refNodes, refEdges, all_objects, stack, nodes,
                 edges, visited, branches, upstreams, bodyRuns>>

\* scan_all_references returns; visualize enters its processing loop
ScanDone ==
  /\ pc = "scan"
  /\ idx > Len(all_objects)
  /\ pc' = "process"
  /\ idx' = 1
  /\ UNCHANGED <<repo, run, refNodes, refEdges, all_objects, stack, nodes,
                 edges, visited, object_types, object_names, branches,
                 upstreams, bodyRuns, out>>

(***************************************************************************)
(* process_object                                                          *)
(***************************************************************************)
\* process_object(git_hash) up to its loop over refs; rest is the caller's stack
Call(git_hash, rest) ==
  IF AlreadyVisited(visited, git_hash)
  THEN /\ stack' = rest
       /\ UNCHANGED <<visited, object_types, object_names, nodes, bodyRuns,
                      pc, out>>
  ELSE LET obj_type == get_object_type(object_types, git_hash)
           node_id == create_node_id(git_hash)
           name == NameOf(object_names, git_hash)
       IN /\ visited' = MarkVisited(visited, git_hash)
          /\ object_types' = CacheType(object_types, git_hash)
          /\ nodes' = SetNode(nodes, node_id,
                              Node(obj_type, Label(git_hash, name), name))
          /\ object_names' = NamesAfterParse(object_names, obj_type, git_hash)
          /\ bodyRuns' = [bodyRuns EXCEPT ![git_hash] = @ + 1]
          /\ IF ParseRaises(obj_type, git_hash)
             THEN \* the IndexError unwinds every frame and ends the run
                  /\ stack' = <<>>
                  /\ pc' = "crashed"
                  /\ out' = Uncaught(out)
             ELSE /\ stack' = <<Frame(git_hash, RefsFor(obj_type, git_hash))>>
                               \o rest
                  /\ pc' = pc
                  /\ out' = out

\* visualize lines 540-543: process_object on the next enumerated identifier
ProcessNext ==
  /\ pc = "process"
  /\ stack = <<>>
  /\ idx <= Len(all_objects)
  /\ Call(all_objects[idx], <<>>)
  /\ idx' = idx + 1
  /\ UNCHANGED <<repo, run, refNodes, refEdges, all_objects, edges,
                 branches, upstreams>>

\* one iteration of the loop over refs: append the edge, recurse
ProcessRef ==
  /\ pc = "process"
  /\ stack # <<>>
  /\ LET top == Head(stack)
     IN /\ top.i <= Len(top.refs)
        /\ LET ref_type == top.refs[top.i][1]
               ref_hash == top.refs[top.i][2]
           IN /\ edges' = Append(edges, <<create_node_id(top.hash),
                                          create_node_id(ref_hash), ref_type>>)
              /\ Call(ref_hash, <<[top EXCEPT !.i = @ + 1]>> \o Tail(stack))
  /\ UNCHANGED <<repo, run, refNodes, refEdges, all_objects, idx,
                 branches, upstreams>>

\* the loop over refs is exhausted: process_object returns
ProcessReturn ==
  /\ pc = "process"
  /\ stack # <<>>
  /\ Head(stack).i > Len(Head(stack).refs)
  /\ stack' = Tail(stack)
  /\ UNCHANGED <<repo, run, refNodes, refEdges, pc, all_objects, idx, nodes,
                 edges, visited, object_types, object_names, branches,
                 upstreams, bodyRuns, out>>

\* the processing loop ends; visualize calls process_branches
ProcessDone ==
  /\ pc = "process"
  /\ stack = <<>>
  /\ idx > Len(all_objects)
  /\ pc' = "pb_branches"
  /\ idx' = 1
  /\ UNCHANGED <<repo, run, refNodes, refEdges, all_objects, stack, nodes,
                 edges, visited, object_types, object_names, branches,
                 upstreams, bodyRuns, out>>

(***************************************************************************)
(* process_branches                                                        *)
(***************************************************************************)
\* slip: no dummy node for a branch that has no node
WithPlaceholder_none(ns, target_node_id, target_branch) == ns

\* lines 317-319: the dashed dummy node for a branch that has no node yet
WithPlaceholder(ns, target_node_id, target_branch) ==
  IF target_node_id \notin DOMAIN ns
  THEN SetNode(ns, target_node_id, Node("branch", target_branch, "local_missing"))
  ELSE ns

\* lines 336-340: the remote upstream node if present, else the local one
TrackTarget(ns, upstream) ==
  LET upstream_remote_id == create_branch_node(upstream, "remote")
      upstream_local_id == create_branch_node(upstream, "local")
  IN IF upstream_remote_id \in DOMAIN ns THEN <<upstream_remote_id>>
     ELSE IF upstream_local_id \in DOMAIN ns THEN <<upstream_local_id>>
     ELSE <<>>

\* one iteration or the exit of the first loop: local and remote branches
PbBranch ==
  /\ pc = "pb_branches"
  /\ IF idx <= Len(branches)
     THEN LET branch_name == branches[idx][1]
              branch_type == branches[idx][2]
              node_id == create_branch_node(branch_name, branch_type)
          IN /\ IF branch_type \in {"local", "remote"}
                THEN /\ nodes' = SetNode(nodes, node_id,
                                         Node("branch", branch_name, branch_type))
                     /\ edges' = Append(edges, <<node_id,
                                                 create_node_id(branches[idx][3]),
                                                 branch_type>>)
                ELSE UNCHANGED <<nodes, edges>>
             /\ idx' = idx + 1
             /\ pc' = pc
     ELSE /\ pc' = "pb_head"
          /\ idx' = 1
          /\ UNCHANGED <<nodes, edges>>
  /\ UNCHANGED <<repo, run, refNodes, refEdges, all_objects, stack, visited,
                 object_types, object_names, branches, upstreams, bodyRuns, out>>

\* one iteration or the exit of the second loop: HEAD
PbHead ==
  /\ pc = "pb_head"
  /\ IF idx <= Len(branches)
     THEN LET branch_name == branches[idx][1]
              branch_type == branches[idx][2]
              target == branches[idx][3]
              node_id == create_branch_node(branch_name, branch_type)
              withHead == SetNode(nodes, node_id,
                                  Node("branch", branch_name, branch_type))
          IN /\ IF branch_type # "head"
                THEN UNCHANGED <<nodes, edges>>
                ELSE IF target[1] = "branch:"
                THEN LET target_node_id == create_branch_node(target[2], "local")
                     IN /\ nodes' = WithPlaceholder(withHead, target_node_id,
                                                    target[2])
                        /\ edges' = Append(edges, <<node_id, target_node_id, "head">>)
                ELSE /\ nodes' = withHead
                     /\ edges' = Append(edges, <<node_id,
                                                 create_node_id(target[2]), "head">>)
             /\ idx' = idx + 1
             /\ pc' = pc
     ELSE /\ pc' = "pb_tracks"
          /\ idx' = 1
          /\ UNCHANGED <<nodes, edges>>
  /\ UNCHANGED <<repo, run, refNodes, refEdges, all_objects, stack, visited,
                 object_types, object_names, branches, upstreams, bodyRuns, out>>

\* one iteration or the exit of the third loop: tracking edges
PbTrack ==
  /\ pc = "pb_tracks"
  /\ IF idx <= Len(upstreams)
     THEN LET local_node_id == create_branch_node(upstreams[idx][1], "local")
              target == TrackTarget(nodes, upstreams[idx][2])
          IN /\ edges' = IF target # <<>> /\ local_node_id \in DOMAIN nodes
                         THEN Append(edges, <<local_node_id, target[1], "tracks">>)
                         ELSE edges
             /\ idx' = idx + 1
             /\ pc' = pc
     ELSE /\ pc' = "render"
          /\ idx' = 1
          /\ edges' = edges
  /\ UNCHANGED <<repo, run, refNodes, refEdges, all_objects, stack, nodes,
                 visited, object_types, object_names, branches, upstreams,
                 bodyRuns, out>>

(***************************************************************************)
(* generate_graphviz and the artifacts                                     *)
(***************************************************************************)
\* the attribute list generate_graphviz gives a node, <<>> for no statement
NodeStyle(node) ==
  CASE node.type = "branch" /\ node.name = "local" -> <<"#FFB6C1", "cds">>
    [] node.type = "branch" /\ node.name = "remote" -> <<"#DDA0DD", "cds">>
    [] node.type = "branch" /\ node.name = "head" -> <<"#FF6347", "cds", "3">>
    [] node.type = "branch" /\ node.name = "local_missing" ->
         <<"#FFEFD5", "cds", "dashed,filled">>
    [] node.type = "commit" -> <<"#FFD700", "ellipse">>
    [] node.type = "tree" -> <<"#90EE90", "folder">>
    [] node.type = "blob" -> <<"#87CEEB", "note">>
    [] node.type = "tag" -> <<"#FF69B4", "diamond">>
    [] OTHER -> <<>>

\* the attribute list of an edge statement, <<>> for the bare statement
EdgeStyle(rel_type) ==
  CASE rel_type = "parent" -> <<"red">>
    [] rel_type = "tree" -> <<"green">>
    [] rel_type = "object" -> <<"purple">>
    [] rel_type = "local" -> <<"local", "orange">>
    [] rel_type = "remote" -> <<"remote", "brown">>
    [] rel_type = "local_missing" -> <<"local (missing)", "orange", "dashed">>
    [] rel_type = "head" -> <<"red", "2">>
    [] rel_type = "tracks" -> <<"tracks", "dashed", "black">>
    [] OTHER -> <<>>

\* the node statements and the edge statements of the DOT text
generate_graphviz(ns, es) ==
  [nodes |-> {[id |-> n, label |-> ns[n].label, style |-> NodeStyle(ns[n])] :
                n \in {m \in DOMAIN ns : NodeStyle(ns[m]) # <<>>}},
   edges |-> [i \in DOMAIN es |-> <<es[i][1], es[i][2], EdgeStyle(es[i][3])>>]]

\* visualize line 553
GenerateGraphviz ==
  /\ pc = "render"
  /\ run = 2
  /\ out' = [out EXCEPT !.dot = <<generate_graphviz(nodes, edges)>>]
  /\ pc' = "write"
  /\ UNCHANGED <<repo, run, refNodes, refEdges, all_objects, idx, stack, nodes,
                 edges, visited, object_types, object_names, branches,
                 upstreams, bodyRuns>>

\* visualize lines 555-580 and the print of main: the DOT file, the SVG, stdout
WriteOutputs ==
  /\ pc = "write"
  /\ \E output_file \in BOOLEAN, dot_output_file \in BOOLEAN,
        dot_result \in {"ok", "error", "missing"} :
       /\ dot_output_file \/ dot_result = "ok"
       /\ out' = [out EXCEPT !.file = output_file,
                             !.svg = dot_output_file /\ dot_result = "ok",
                             !.stdout = ~dot_output_file,
                             !.exited = TRUE,
                             !.status = IF dot_output_file /\ dot_result # "ok"
                                        THEN 1 ELSE 0]
  /\ pc' = IF out'.status = 0 THEN "done" ELSE "aborted"
  /\ UNCHANGED <<repo, run, refNodes, refEdges, all_objects, idx, stack, nodes,
                 edges, visited, object_types, object_names, branches,
                 upstreams, bodyRuns>>

(***************************************************************************)
(* A second run on the same repository                                     *)
(***************************************************************************)
\* run 1 has built its model: keep it and start run 2 from a fresh
\* GitObjectGraphVisualizer, whose enumeration may come in any order
NewRun ==
  /\ pc = "render"
  /\ run = 1
  /\ run' = 2
  /\ refNodes' = nodes
  /\ refEdges' = edges
  /\ pc' = "start"
  /\ all_objects' = <<>>
  /\ idx' = 1
  /\ stack' = <<>>
  /\ nodes' = <<>>
  /\ edges' = <<>>
  /\ visited' = {}
  /\ object_types' = <<>>
  /\ object_names' = <<>>
  /\ branches' = <<>>
  /\ upstreams' = <<>>
  /\ bodyRuns' = [h \in AllHashes |-> 0]
  /\ out' = NoOutput
  /\ UNCHANGED repo

Next ==
  \/ Enumerate
  \/ GetAllBranches
  \/ GetHeadReference
  \/ ScanObject
  \/ ScanDone
  \/ ProcessNext
  \/ ProcessRef
  \/ ProcessReturn
  \/ ProcessDone
  \/ PbBranch
  \/ PbHead
  \/ PbTrack
  \/ GenerateGraphviz
  \/ WriteOutputs
  \/ NewRun

Spec == Init /\ [][Next]_vars

\* the program is one thread that runs until it exits
FairSpec == Spec /\ WF_vars(Next)

TypeOK ==
  /\ run \in {1, 2}
  /\ pc \in {"start", "get_branches", "get_head", "scan", "process",
             "pb_branches", "pb_head", "pb_tracks", "render", "write",
             "done", "aborted", "crashed"}
  /\ visited \subseteq AllHashes
  /\ DOMAIN object_types \subseteq DOMAIN repo.objects
  /\ \A i \in DOMAIN edges : Len(edges[i]) = 3

(***************************************************************************)
(* git_tree_visualizer.py: the repository and the command line             *)
(***************************************************************************)
\* entry names in the order git lists them
TvNames == << <<"R">>, <<"a", ".", "c">>, <<"l", "i", "b">> >>
\* sys.argv[1]
GitRefs == {"HEAD^{tree}", "v1"}
\* the name visualize gives the root node
RootName == <<"r", "o", "o", "t">>

\* what an entry of tree h may name: an object later in the order (no tree
\* holds itself), or a commit of another repository (a gitlink)
TvTargets(km, h) ==
  {g \in DOMAIN km : HashIndex(g) > HashIndex(h)} \cup {Hx}

RECURSIVE TvBodies(_, _, _, _)
\* the bodies of tree h with at most n entries named from TvNames[j..]
TvBodies(km, h, j, n) ==
  IF j > Len(TvNames) \/ n = 0 THEN {<<>>}
  ELSE TvBodies(km, h, j + 1, n)
       \cup {<<EntryFor(km, g, TvNames[j])>> \o rest :
               g \in TvTargets(km, h), rest \in TvBodies(km, h, j + 1, n - 1)}

RECURSIVE TvStoresFrom(_, _, _)
TvStoresFrom(km, todo, i) ==
  IF i > Len(todo) THEN {<<>>}
  ELSE LET h == todo[i]
           bodies == IF km[h] = "tree" THEN TvBodies(km, h, 1, MaxEntries)
                     ELSE {<<>>}
       IN {(h :> [kind |-> km[h], body |-> b]) @@ rest :
             b \in bodies, rest \in TvStoresFrom(km, todo, i + 1)}

\* the stores of trees and blobs over H1, H2, H3 with H1 a tree
TvStores ==
  UNION {TvStoresFrom(km, <<H1, H2, H3>>, 1) :
           km \in {f \in [{H1, H2, H3} -> {"tree", "blob"}] : f[H1] = "tree"}}

\* target: what `git rev-parse git_ref` prints, NoHash when it fails
TvRepo(store, git_ref, target) ==
  [objects |-> store, git_ref |-> git_ref, target |-> target]

\* every store with a reference to its top tree; the stores with an empty
\* top tree with every other reference too: one that does not resolve, a
\* full hash no object has, a subtree, a blob
TvRepos ==
  {TvRepo(s, "HEAD^{tree}", H1) : s \in TvStores}
  \cup {TvRepo(s, r, t) :
          s \in {st \in TvStores : st[H1].body = <<>>},
          r \in GitRefs, t \in {NoHash, Hx, H1, H2, H3}}

(***************************************************************************)
(* GitTreeVisualizer                                                       *)
(***************************************************************************)
\* f"obj_{git_hash[:8]}_{safe_name}"
tv_create_node_id(git_hash, name) == <<"obj", git_hash[1], safe_name(name)>>

\* self.nodes[node_id] = (type, name)
TvNode(type, name) == [type |-> type, name |-> name]

\* parse_tree_contents: the entries, [] when cat-file fails
parse_tree_contents(git_hash) ==
  IF Exists(git_hash)
  THEN SelectSeq(CatFileBody(git_hash), LAMBDA l : l.tok = "entry")
  ELSE <<>>

\* slip: the kind of the resolved object is not checked
NotATree_unchecked(obj_type) == FALSE

\* `if obj_type != 'tree'` in visualize
NotATree(obj_type) == obj_type # "tree"

TvNoOutput ==
  [exited |-> FALSE, status |-> 0, diag |-> <<>>, dot |-> <<>>,
   file |-> FALSE, stdout |-> FALSE]

\* the message on stderr in front of sys.exit(1)
Diagnostic(ref, kind) == <<[ref |-> ref, kind |-> kind]>>

\* generate_graphviz of GitTreeVisualizer: a statement per tree node, per
\* blob node and per edge
tv_generate_graphviz(ns, es) ==
  [nodes |-> {[id |-> n, label |-> ns[n].name,
               style |-> IF ns[n].type = "tree" THEN <<"#90EE90", "folder">>
                         ELSE <<"#87CEEB", "note">>] :
                n \in {m \in DOMAIN ns : ns[m].type \in {"tree", "blob"}}},
   edges |-> es]

\* __init__ of GitTreeVisualizer; the variables of the other program rest
TreeInit ==
  /\ repo \in TvRepos
  /\ pc = "tv_start"
  /\ nodes = <<>>
  /\ edges = <<>>
  /\ visited = {}
  /\ stack = <<>>
  /\ out = TvNoOutput
  /\ run = 1
  /\ refNodes = <<>>
  /\ refEdges = <<>>
  /\ all_objects = <<>>
  /\ idx = 1
  /\ object_types = <<>>
  /\ object_names = <<>>
  /\ branches = <<>>
  /\ upstreams = <<>>
  /\ bodyRuns = [h \in AllHashes |-> 0]

\* crawl_tree(git_hash, parent_id) up to its loop; rest is the caller's stack
TvCall(git_hash, parent_id, rest) ==
  IF git_hash \in visited
  THEN stack' = rest /\ visited' = visited
  ELSE /\ visited' = visited \cup {git_hash}
       /\ stack' = <<[hash |-> git_hash, parent_id |-> parent_id,
                      entries |-> parse_tree_contents(git_hash), i |-> 1]>>
                   \o rest

\* visualize lines 165-182: resolve the reference, check the kind, create
\* the root node and call crawl_tree
TvResolve ==
  /\ pc = "tv_start"
  /\ LET tree_hash == repo.target
     IN IF tree_hash = NoHash
        THEN \* get_git_object_hash: rev-parse failed
             /\ out' = [out EXCEPT !.exited = TRUE, !.status = 1,
                                   !.diag = Diagnostic(repo.git_ref, "")]
             /\ pc' = "tv_aborted"
             /\ UNCHANGED <<nodes, visited, stack>>
        ELSE IF NotATree(CatFileType(tree_hash))
        THEN /\ out' = [out EXCEPT !.exited = TRUE, !.status = 1,
                                   !.diag = Diagnostic(repo.git_ref,
                                                       CatFileType(tree_hash))]
             /\ pc' = "tv_aborted"
             /\ UNCHANGED <<nodes, visited, stack>>
        ELSE LET root_id == tv_create_node_id(tree_hash, RootName)
             IN /\ nodes' = SetNode(nodes, root_id, TvNode("tree", RootName))
                /\ TvCall(tree_hash, root_id, <<>>)
                /\ pc' = "tv_crawl"
                /\ out' = out
  /\ UNCHANGED <<repo, run, refNodes, refEdges, all_objects, idx, edges,
                 object_types, object_names, branches, upstreams, bodyRuns>>

\* one iteration of the loop of crawl_tree
TvEntry ==
  /\ pc = "tv_crawl"
  /\ stack # <<>>
  /\ LET top == Head(stack)
     IN /\ top.i <= Len(top.entries)
        /\ LET e == top.entries[top.i]
               node_id == tv_create_node_id(e.hash, e.name)
               back == <<[top EXCEPT !.i = @ + 1]>> \o Tail(stack)
           IN CASE e.type = "tree" ->
                     /\ nodes' = SetNode(nodes, node_id, TvNode("tree", e.name))
                     /\ edges' = Append(edges, <<top.parent_id, node_id>>)
                     /\ TvCall(e.hash, node_id, back)
                [] e.type = "blob" ->
                     /\ nodes' = SetNode(nodes, node_id, TvNode("blob", e.name))
                     /\ edges' = Append(edges, <<top.parent_id, node_id>>)
                     /\ stack' = back
                     /\ visited' = visited
                [] OTHER ->
                     /\ stack' = back
                     /\ UNCHANGED <<nodes, edges, visited>>
  /\ UNCHANGED <<repo, run, refNodes, refEdges, pc, all_objects, idx,
                 object_types, object_names, branches, upstreams, bodyRuns, out>>

\* the loop of crawl_tree is exhausted: it returns
TvReturn ==
  /\ pc = "tv_crawl"
  /\ stack # <<>>
  /\ Head(stack).i > Len(Head(stack).entries)
  /\ stack' = Tail(stack)
  /\ UNCHANGED <<repo, run, refNodes, refEdges, pc, all_objects, idx, nodes,
                 edges, visited, object_types, object_names, branches,
                 upstreams, bodyRuns, out>>

\* visualize lines 184-192 and the print of main: the DOT text, to the file
\* or to stdout
TvWrite ==
  /\ pc = "tv_crawl"
  /\ stack = <<>>
  /\ \E output_file \in BOOLEAN :
       out' = [out EXCEPT !.dot = <<tv_generate_graphviz(nodes, edges)>>,
                          !.file = output_file,
                          !.stdout = ~output_file,
                          !.exited = TRUE]
  /\ pc' = "tv_done"
  /\ UNCHANGED <<repo, run, refNodes, refEdges, all_objects, idx, stack, nodes,
                 edges, visited, object_types, object_names, branches,
                 upstreams, bodyRuns>>

TreeNext ==
  \/ TvResolve
  \/ TvEntry
  \/ TvReturn
  \/ TvWrite

TreeSpec == TreeInit /\ [][TreeNext]_vars

(***************************************************************************)
(* Properties                                                              *)
(***************************************************************************)
LinesOf(store) == UNION {{store[h].body[i] : i \in DOMAIN store[h].body} : h \in DOMAIN store}

\* h references g in its body
RefersTo(store, h, g) == \E i \in DOMAIN store[h].body : store[h].body[i].hash = g

HasCycle(store) ==
  \E a, b \in DOMAIN store : RefersTo(store, a, b) /\ RefersTo(store, b, a)

\* the identifier the next step calls process_object on, as <<h>>; <<>> if none
Callee ==
  IF pc # "process" THEN <<>>
  ELSE IF stack = <<>>
  THEN IF idx <= Len(all_objects) THEN <<all_objects[idx]>> ELSE <<>>
  ELSE IF Head(stack).i <= Len(Head(stack).refs)
  THEN <<Head(stack).refs[Head(stack).i][2]>>
  ELSE <<>>

IsPrefix(s, t) == Len(s) <= Len(t) /\ \A i \in DOMAIN s : s[i] = t[i]

\* process_object on a visited identifier: nothing changes but the caller's edge
VisitedCallIsNoOp ==
  (Callee # <<>> /\ Callee[1] \in visited) =>
     /\ UNCHANGED <<nodes, visited, object_types, object_names, bodyRuns>>
     /\ Len(stack') = Len(stack)
     /\ IsPrefix(edges, edges')
     /\ Len(edges') = Len(edges) + (IF stack = <<>> THEN 0 ELSE 1)

FoldInDone == pc \in {"render", "write", "done"}

\* C5: after the graph build and the fold-in, both ends of every edge are
\* keys of the node map, for reference, branch, HEAD and tracks edges alike.
C5_EdgesResolve ==
  FoldInDone =>
    \A i \in DOMAIN edges :
      edges[i][1] \in DOMAIN nodes /\ edges[i][2] \in DOMAIN nodes

Relations(es) == {es[i][3] : i \in DOMAIN es}

\* a final model with a tracks edge, a HEAD edge onto a placeholder, a
\* branch edge and a reference to an object the store does not hold
C5_Witness ==
  /\ run = 2
  /\ pc = "render"
  /\ {"tracks", "head", "local", "tree"} \subseteq Relations(edges)
  /\ \E n \in DOMAIN nodes : nodes[n].name = "local_missing"
  /\ \E i \in DOMAIN edges : edges[i][2] = create_node_id(Hx)

EnumerationFails == ~repo.enumOK \/ DOMAIN repo.objects = {}

\* C9: when enumeration fails or yields nothing, the run exits with status 1
\* and never creates a node, an edge, the DOT text, a file or an SVG.
C9_EnumerationFailureAborts ==
  EnumerationFails =>
    /\ pc \in {"start", "aborted"}
    /\ pc = "aborted" => out.exited /\ out.status # 0
    /\ nodes = <<>> /\ edges = <<>>
    /\ out.dot = <<>> /\ ~out.file /\ ~out.svg /\ ~out.stdout

\* the run has aborted on a failing enumeration of a store that holds objects
C9_Witness ==
  /\ pc = "aborted"
  /\ ~repo.enumOK
  /\ DOMAIN repo.objects # {}
  /\ repo.locals # <<>>

BuildDone ==
  pc \in {"pb_branches", "pb_head", "pb_tracks", "render", "write", "done"}

\* the enumerated identifiers and every identifier referenced from them
WantedIds ==
  (DOMAIN repo.objects \cup {l.hash : l \in LinesOf(repo.objects)}) \ {NoHash}

\* C2: at the end of the graph build every enumerated or referenced
\* identifier has a node, and no two distinct identifiers share a node entry.
C2_OneNodePerIdentifier ==
  BuildDone =>
    /\ \A h \in WantedIds : create_node_id(h) \in DOMAIN nodes
    /\ \A g, h \in WantedIds : g # h => create_node_id(g) # create_node_id(h)

NodeSet(ns) == {<<n, ns[n].type, ns[n].label, ns[n].name>> : n \in DOMAIN ns}
EdgeSet(es) == {es[i] : i \in DOMAIN es}

\* C3: two runs on one repository that differ only in the enumeration order
\* end with the same node set and the same edge set.
C3_EnumerationOrderIndependent ==
  (run = 2 /\ pc = "render") =>
    /\ NodeSet(nodes) = NodeSet(refNodes)
    /\ EdgeSet(edges) = EdgeSet(refEdges)

Trees == {h \in DOMAIN repo.objects : repo.objects[h].kind = "tree"}

\* the names tree a lists x under
EntryNamesOf(a, x) ==
  {repo.objects[a].body[i].name :
     i \in {j \in DOMAIN repo.objects[a].body :
              /\ repo.objects[a].body[j].tok = "entry"
              /\ repo.objects[a].body[j].hash = x}}

Pos(h) == CHOOSE i \in DOMAIN all_objects : all_objects[i] = h

\* a is the first enumerated tree that lists x
FirstLister(a, x) ==
  /\ EntryNamesOf(a, x) # {}
  /\ \A c \in Trees : EntryNamesOf(c, x) # {} => Pos(a) <= Pos(c)

NamesKept ==
  run' = run =>
    \A h \in DOMAIN object_names :
      h \in DOMAIN object_names' /\ object_names'[h] = object_names[h]

C6_HeadPlaceholder ==
  (pc = "render" /\ repo.head.mode = "symbolic") =>
    LET target_branch == repo.head.name
        target == create_branch_node(target_branch, "local")
        recorded == \E i \in DOMAIN branches :
                      branches[i][1] = target_branch /\ branches[i][2] = "local"
    IN /\ {edges[i] : i \in {j \in DOMAIN edges : edges[j][3] = "head"}}
            = {<<create_branch_node(HeadName, "head"), target, "head">>}
       /\ Cardinality({j \in DOMAIN edges : edges[j][3] = "head"}) = 1
       /\ target \in DOMAIN nodes
       /\ IF recorded
          THEN /\ nodes[target] = Node("branch", target_branch, "local")
               /\ \A n \in DOMAIN nodes : nodes[n].name # "local_missing"
          ELSE nodes[target] = Node("branch", target_branch, "local_missing")

ScenarioRepo == PlainRepo(ScenarioStore)

\* the model of the scenario, with relation rel on the edge from T1 to B1
ScenarioModel(rel) ==
  LET c1 == create_node_id(H1)
      t1 == create_node_id(H2)
      b1 == create_node_id(H3)
      main == create_branch_node(Main, "local")
      head == create_branch_node(HeadName, "head")
  IN /\ DOMAIN nodes = {c1, t1, b1, main, head}
     /\ nodes[c1].type = "commit" /\ nodes[t1].type = "tree"
     /\ nodes[b1].type = "blob" /\ nodes[b1].name = "readme.txt"
     /\ nodes[main] = Node("branch", Main, "local")
     /\ nodes[head] = Node("branch", HeadName, "head")
     /\ Len(edges) = 4
     /\ EdgeSet(edges) = {<<c1, t1, "tree">>, <<t1, b1, rel>>,
                          <<main, c1, "local">>, <<head, main, "head">>}

\* C7 as stated: commit C1 with tree T1, T1 with blob B1 named readme.txt,
\* branch main at C1 and HEAD on main give the nodes C1, T1, B1, main, HEAD
\* and the edges C1-tree->T1, T1-tree->B1, main-local->C1, HEAD-head->main.
C7_ScenarioTreeRelation ==
  (repo = ScenarioRepo /\ pc = "render") => ScenarioModel("tree")

\* C7 amended: the same scenario gives the same nodes and edges, except
\* that the edge from T1 to B1 carries the entry's type, blob.
C7_ScenarioEntryType ==
  (repo = ScenarioRepo /\ pc = "render") => ScenarioModel("blob")

\* run 2 has folded the branches into the model of the scenario repository
C7_Witness ==
  /\ repo = ScenarioRepo
  /\ run = 2
  /\ pc = "render"
  /\ Len(edges) = 4

\* C8: a branch whose tip fails to resolve is the only one left out: every
\* listed local or remote branch whose tip resolves has its node and its
\* edge to its commit, wherever it stands in the listing.
C8_PerBranchRecovery ==
  pc = "render" =>
    /\ \A i \in DOMAIN LocalListing :
         LET b == LocalListing[i]
             node_id == create_branch_node(b.name, "local")
         IN (~SkipLocal(b.name) /\ b.tip # NoHash) =>
              /\ node_id \in DOMAIN nodes
              /\ <<node_id, create_node_id(b.tip), "local">> \in EdgeSet(edges)
    /\ \A i \in DOMAIN repo.remotes :
         LET b == repo.remotes[i]
             node_id == create_branch_node(b.name, "remote")
         IN (~SkipRemote(b.name) /\ b.tip # NoHash) =>
              /\ node_id \in DOMAIN nodes
              /\ <<node_id, create_node_id(b.tip), "remote">> \in EdgeSet(edges)

NodesKept ==
  \A n \in DOMAIN nodes : n \in DOMAIN nodes' /\ nodes'[n] = nodes[n]

\* C10: within a run every step keeps each node entry as it is and keeps
\* the edge list as a prefix of the new edge list.
C10_AppendOnly ==
  [][run' = run => NodesKept /\ IsPrefix(edges, edges')]_vars

\* node_id is the node of the branch called name in scope type
IsBranchNode(node_id, name, type) ==
  node_id \in DOMAIN nodes /\ nodes[node_id] = Node("branch", name, type)

TracksFrom(node_id) ==
  {i \in DOMAIN edges : edges[i][3] = "tracks" /\ edges[i][1] = node_id}

\* the local branches for-each-ref lists with an upstream and whose tip resolves
TrackingLocals ==
  {k \in DOMAIN repo.upstream :
     /\ repo.upstream[k][2] # NoName
     /\ \E i \in DOMAIN repo.locals :
          /\ repo.locals[i].name = repo.upstream[k][1]
          /\ repo.locals[i].tip # NoHash}

\* the tracks edges of one configured pair in the final model
TracksEdgeFor(local, upstream) ==
  LET local_node_id == create_branch_node(local, "local")
      remote_id == create_branch_node(upstream, "remote")
      local_id == create_branch_node(upstream, "local")
      target == IF remote_id \in DOMAIN nodes THEN remote_id ELSE local_id
  IN IF remote_id \in DOMAIN nodes \/ local_id \in DOMAIN nodes
     THEN /\ IsBranchNode(local_node_id, local, "local")
          /\ nodes[target].label = upstream
          /\ Cardinality(TracksFrom(local_node_id)) = 1
          /\ \A i \in TracksFrom(local_node_id) : edges[i][2] = target
     ELSE TracksFrom(local_node_id) = {}

\* C11: every local branch with a configured upstream gets one tracks edge
\* from its own node to the upstream's node, the remote-scoped one when both
\* scopes have a node; with no node for the upstream there is no tracks edge;
\* the tracks step never adds a node.
C11_TracksEdges ==
  /\ [](FoldInDone =>
          \A k \in TrackingLocals :
            TracksEdgeFor(repo.upstream[k][1], repo.upstream[k][2]))
  /\ [][pc = "pb_tracks" => DOMAIN nodes' = DOMAIN nodes]_vars

\* the Branch References of one scope that process_branches gives a node
BranchRefs ==
  {<<branches[i][1], branches[i][2]>> : i \in DOMAIN branches}

\* C12: two Branch References that differ in name or in scope get different
\* node identifiers from create_branch_node, so each keeps its own node.
C12_BranchIdsCollisionFree ==
  /\ \A a, b \in BranchRefs :
       a # b => create_branch_node(a[1], a[2]) # create_branch_node(b[1], b[2])
  /\ FoldInDone =>
       \A a \in BranchRefs :
         IsBranchNode(create_branch_node(a[1], a[2]), a[1], a[2])

\* the node identifiers that have a node statement in the DOT text dot
StatedNodes(dot) == {st.id : st \in dot.nodes}

\* C13: the DOT text has a node statement for every entry of the node map,
\* whatever its kind, and an edge statement for every entry of the edge
\* list, so both ends of every edge statement have a node statement.
C13_RendererDropsNothing ==
  out.dot # <<>> =>
    LET dot == out.dot[1]
    IN /\ StatedNodes(dot) = DOMAIN nodes
       /\ Cardinality(dot.nodes) = Cardinality(DOMAIN nodes)
       /\ Len(dot.edges) = Len(edges)
       /\ \A i \in DOMAIN edges :
            dot.edges[i][1] = edges[i][1] /\ dot.edges[i][2] = edges[i][2]
       /\ \A i \in DOMAIN dot.edges :
            {dot.edges[i][1], dot.edges[i][2]} \subseteq StatedNodes(dot)

\* C14: a body line that cannot be parsed never ends the run: no exception
\* leaves a parser, and at the end of the graph build every enumerated
\* object has its node.
C14_ParseFailureContained ==
  /\ pc # "crashed"
  /\ BuildDone =>
       \A h \in DOMAIN repo.objects : create_node_id(h) \in DOMAIN nodes

InFoldIn == pc \in {"pb_branches", "pb_head", "pb_tracks"}

\* the node of every identifier process_object visited stays as it is
ObjectNodesKept ==
  \A h \in visited :
    LET node_id == create_node_id(h)
    IN node_id \in DOMAIN nodes' /\ nodes'[node_id] = nodes[node_id]

\* C16: no step of process_branches changes the kind, label or name of a
\* node that process_object created, whatever the branches, HEAD and
\* upstream configuration are.
C16_FoldInKeepsObjects ==
  [][InFoldIn => ObjectNodesKept]_vars

\* the fold-in has added a remote branch, HEAD and a tracks edge to a model
\* that holds a commit node
C16_Witness ==
  /\ pc = "render"
  /\ \E h \in visited : nodes[create_node_id(h)].type = "commit"
  /\ \E n \in DOMAIN nodes : nodes[n] = Node("branch", OriginMain, "remote")
  /\ \E n \in DOMAIN nodes : nodes[n].name = "head"
  /\ "tracks" \in Relations(edges)

\* the starting reference does not resolve, or not to a tree
BadStart == repo.target = NoHash \/ CatFileType(repo.target) # "tree"

RECURSIVE TvReachable(_)
\* the trees reachable from the trees S through tree entries
TvReachable(S) ==
  LET more == {l.hash : l \in {m \in LinesOf([h \in S |-> repo.objects[h]]) :
                                 m.type = "tree" /\ m.hash \in DOMAIN repo.objects}}
  IN IF more \subseteq S THEN S ELSE TvReachable(S \cup more)

\* the pairs <<node, tree object the node stands for>> of the hierarchy
TvPlacements ==
  {<<tv_create_node_id(repo.target, RootName), repo.target>>}
  \cup {<<tv_create_node_id(l.hash, l.name), l.hash>> :
          l \in {m \in LinesOf([h \in TvReachable({repo.target}) |->
                                  repo.objects[h]]) :
                   m.type = "tree" /\ m.hash \in DOMAIN repo.objects}}

\* C17: after crawl_tree has run from the root, every tree node has one
\* outgoing edge to a node for each tree or blob entry of the tree object it
\* stands for, also where one tree object stands at two places of the
\* hierarchy.  (Entries of type commit, which crawl_tree passes over, are
\* left out of the count.)
C17_TreeNodesHaveTheirEntries ==
  pc = "tv_done" =>
    \A p \in TvPlacements :
      /\ p[1] \in DOMAIN nodes
      /\ \A i \in DOMAIN repo.objects[p[2]].body :
           LET e == repo.objects[p[2]].body[i]
               child == tv_create_node_id(e.hash, e.name)
           IN e.type \in {"tree", "blob"} =>
                /\ child \in DOMAIN nodes
                /\ Cardinality({j \in DOMAIN edges :
                                  edges[j] = <<p[1], child>>}) = 1

====
